---------------------------- MODULE Spec2Model ----------------------------
(***************************************************************************)
(* A model of the document summariser: the SQLite store (storage.py), the  *)
(* local and online summarisers (summarizers.py) and the two entry points  *)
(* that drive them (app.py, cli.py).                                       *)
(*                                                                         *)
(* A Python str is a sequence of text chunks (a chunk is one character,    *)
(* or a run of characters the model never looks inside, such as a whole    *)
(* sentence); a Python list of str is a sequence of such sequences.  An    *)
(* Optional is a sequence of length 0 (None, or a raised exception where   *)
(* stated) or 1.                                                           *)
(***************************************************************************)
EXTENDS Integers, Sequences, FiniteSets, TLC

VARIABLES
    rows,     \* table summaries: id -> row (storage.py:27-39)
    seq,      \* sqlite_sequence of the AUTOINCREMENT key: largest id ever given
    now,      \* CURRENT_TIMESTAMP, in whole seconds
    hist,     \* history: every save_summary that returned, <<id, arguments>>
    gone,     \* history: ids for which delete_summary returned True
    remote,   \* history: generate_content calls the last operation sent to the service
    ret,      \* the outcome of the last operation, as its caller sees it
    initialized,  \* LocalSummarizer._initialized of the instance the threads share
    nltk_data,    \* the NLTK packages on disk, and whether they can be downloaded
    threads       \* the calls in flight on that instance: thread -> position and result

vars == <<rows, seq, now, hist, gone, remote, ret, initialized, nltk_data, threads>>

\* Bounds of the model.
MaxSaves == 2
MaxClock == 1
MaxLimit == 2

\* required_packages of LocalSummarizer._initialize, in the order of the loop.
Packages == <<"punkt", "punkt_tab", "stopwords">>

\* The packages all on disk, and no call in flight: the state of the
\* summariser where calls are taken one at a time.
NoCallInFlight ==
    /\ initialized = FALSE
    /\ nltk_data = [packages |-> [k \in DOMAIN Packages |-> "ready"], network |-> TRUE,
                    first |-> [k \in DOMAIN Packages |-> "ready"]]
    /\ threads = <<>>

Min(a, b) == IF a < b THEN a ELSE b
Max(a, b) == IF a > b THEN a ELSE b

None == <<>>
Some(v) == <<v>>

\* s[:n] of Python, n >= 0.
Take(s, n) == SubSeq(s, 1, Min(Len(s), n))

RECURSIVE Concat(_)
Concat(ss) == IF ss = <<>> THEN <<>> ELSE Head(ss) \o Concat(Tail(ss))

\* sep.join(ss)
RECURSIVE Join(_, _)
Join(ss, sep) ==
    IF ss = <<>> THEN <<>>
    ELSE IF Len(ss) = 1 THEN ss[1]
    ELSE ss[1] \o sep \o Join(Tail(ss), sep)

RECURSIVE Digits(_)
Digits(n) == IF n < 10 THEN <<ToString(n)>> ELSE Digits(n \div 10) \o <<ToString(n % 10)>>

(***************************************************************************)
(* json.dumps and json.loads, on the values the program hands them:        *)
(* strings, integers, null, lists and objects.                             *)
(***************************************************************************)
JStr(s) == [t |-> "str", v |-> s]
JInt(n) == [t |-> "int", v |-> n]
JNull == [t |-> "null", v |-> 0]
JList(l) == [t |-> "list", v |-> l]
JObj(pairs) == [t |-> "obj", v |-> pairs]

NoIndent == -1

EscapeChar(c) ==
    IF c = "\"" THEN <<"\\", "\"">>
    ELSE IF c = "\\" THEN <<"\\", "\\">>
    ELSE IF c = "\n" THEN <<"\\", "n">>
    ELSE <<c>>

RECURSIVE Escape(_)
Escape(s) == IF s = <<>> THEN <<>> ELSE EscapeChar(Head(s)) \o Escape(Tail(s))

\* A string literal written without escaping its characters.
QuoteUnescaped(s) == <<"\"">> \o s \o <<"\"">>

Quote(s) == <<"\"">> \o Escape(s) \o <<"\"">>

RECURSIVE Spaces(_)
Spaces(n) == IF n <= 0 THEN <<>> ELSE <<" ">> \o Spaces(n - 1)

NewlineIndent(indent, level) ==
    IF indent = NoIndent THEN <<>> ELSE <<"\n">> \o Spaces(indent * level)

ItemSeparator(indent, level) ==
    IF indent = NoIndent THEN <<",", " ">> ELSE <<",">> \o NewlineIndent(indent, level)

RECURSIVE JsonDumps(_, _, _)
JsonDumps(v, indent, level) ==
    CASE v.t = "str" -> Quote(v.v)
      [] v.t = "int" -> Digits(v.v)
      [] v.t = "null" -> <<"null">>
      [] v.t = "list" ->
            IF v.v = <<>> THEN <<"[", "]">>
            ELSE <<"[">> \o NewlineIndent(indent, level + 1)
                 \o Join([k \in 1..Len(v.v) |-> JsonDumps(v.v[k], indent, level + 1)],
                         ItemSeparator(indent, level + 1))
                 \o NewlineIndent(indent, level) \o <<"]">>
      [] v.t = "obj" ->
            IF v.v = <<>> THEN <<"{", "}">>
            ELSE <<"{">> \o NewlineIndent(indent, level + 1)
                 \o Join([k \in 1..Len(v.v) |->
                             Quote(v.v[k][1]) \o <<":", " ">>
                             \o JsonDumps(v.v[k][2], indent, level + 1)],
                         ItemSeparator(indent, level + 1))
                 \o NewlineIndent(indent, level) \o <<"}">>

ParseFail == [ok |-> FALSE, v |-> JNull, i |-> 0]
ParseOk(v, i) == [ok |-> TRUE, v |-> v, i |-> i]

JsonWhitespace == {" ", "\n"}
DigitChars == {ToString(d) : d \in 0..9}
DigitVal(c) == CHOOSE d \in 0..9 : ToString(d) = c

RECURSIVE SkipWs(_, _)
SkipWs(s, i) == IF i <= Len(s) /\ s[i] \in JsonWhitespace THEN SkipWs(s, i + 1) ELSE i

\* The characters of a string literal after its opening quote.
RECURSIVE ParseStrBody(_, _, _)
ParseStrBody(s, i, acc) ==
    IF i > Len(s) THEN ParseFail
    ELSE IF s[i] = "\"" THEN ParseOk(acc, i + 1)
    ELSE IF s[i] = "\n" THEN ParseFail
    ELSE IF s[i] = "\\" THEN
        IF i + 1 > Len(s) THEN ParseFail
        ELSE IF s[i + 1] \in {"\"", "\\"} THEN ParseStrBody(s, i + 2, Append(acc, s[i + 1]))
        ELSE IF s[i + 1] = "n" THEN ParseStrBody(s, i + 2, Append(acc, "\n"))
        ELSE ParseFail
    ELSE ParseStrBody(s, i + 1, Append(acc, s[i]))

RECURSIVE ParseIntBody(_, _, _)
ParseIntBody(s, i, acc) ==
    IF i <= Len(s) /\ s[i] \in DigitChars
    THEN ParseIntBody(s, i + 1, 10 * acc + DigitVal(s[i]))
    ELSE ParseOk(JInt(acc), i)

RECURSIVE ParseValue(_, _)
RECURSIVE ParseItems(_, _, _)
RECURSIVE ParseMembers(_, _, _)

ParseValue(s, i0) ==
    LET i == SkipWs(s, i0) IN
    IF i > Len(s) THEN ParseFail
    ELSE IF s[i] = "\"" THEN
        LET r == ParseStrBody(s, i + 1, <<>>) IN
        IF r.ok THEN ParseOk(JStr(r.v), r.i) ELSE ParseFail
    ELSE IF s[i] \in DigitChars THEN ParseIntBody(s, i, 0)
    ELSE IF s[i] = "null" THEN ParseOk(JNull, i + 1)
    ELSE IF s[i] = "[" THEN
        LET j == SkipWs(s, i + 1) IN
        IF j <= Len(s) /\ s[j] = "]" THEN ParseOk(JList(<<>>), j + 1)
        ELSE ParseItems(s, j, <<>>)
    ELSE IF s[i] = "{" THEN
        LET j == SkipWs(s, i + 1) IN
        IF j <= Len(s) /\ s[j] = "}" THEN ParseOk(JObj(<<>>), j + 1)
        ELSE ParseMembers(s, j, <<>>)
    ELSE ParseFail

ParseItems(s, i, acc) ==
    LET r == ParseValue(s, i) IN
    IF ~r.ok THEN ParseFail
    ELSE LET j == SkipWs(s, r.i) IN
         IF j > Len(s) THEN ParseFail
         ELSE IF s[j] = "," THEN ParseItems(s, j + 1, Append(acc, r.v))
         ELSE IF s[j] = "]" THEN ParseOk(JList(Append(acc, r.v)), j + 1)
         ELSE ParseFail

ParseMembers(s, i0, acc) ==
    LET i == SkipWs(s, i0) IN
    IF i > Len(s) \/ s[i] # "\"" THEN ParseFail
    ELSE LET k == ParseStrBody(s, i + 1, <<>>) IN
         IF ~k.ok THEN ParseFail
         ELSE LET c == SkipWs(s, k.i) IN
              IF c > Len(s) \/ s[c] # ":" THEN ParseFail
              ELSE LET r == ParseValue(s, c + 1) IN
                   IF ~r.ok THEN ParseFail
                   ELSE LET j == SkipWs(s, r.i) IN
                        IF j > Len(s) THEN ParseFail
                        ELSE IF s[j] = "," THEN
                            ParseMembers(s, j + 1, Append(acc, <<k.v, r.v>>))
                        ELSE IF s[j] = "}" THEN
                            ParseOk(JObj(Append(acc, <<k.v, r.v>>)), j + 1)
                        ELSE ParseFail

\* json.loads: None stands for JSONDecodeError.
JsonLoads(s) ==
    LET r == ParseValue(s, 1) IN
    IF r.ok /\ SkipWs(s, r.i) > Len(s) THEN Some(r.v) ELSE None

\* A list of str as a JSON value and back.
ToJson(points) == JList([k \in 1..Len(points) |-> JStr(points[k])])
FromJson(j) == IF j.t = "list" THEN [k \in 1..Len(j.v) |-> j.v[k].v] ELSE j.v

(***************************************************************************)
(* storage.py: the table, and the five operations on it.  Every operation  *)
(* opens its own connection and commits before it returns, so each is one  *)
(* step.                                                                   *)
(***************************************************************************)
Str(c) == <<c>>

\* Arguments of save_summary the model draws from: text holding the characters
\* JSON escapes or uses as punctuation, and empty values.
SaveArgs ==
    { [filename |-> <<"\"", "a", "\\">>, original_text |-> <<"b", "\n", "a">>,
       summary |-> <<"b", "\n", ",", " ", "a">>,
       key_points |-> << <<>>, <<",", "\"", " ", "a">>, <<"]", "\\", "\n", "[">> >>,
       mode |-> Str("online"), length |-> Str("long"), file_type |-> Str("pdf")],
      [filename |-> <<>>, original_text |-> <<"a">>, summary |-> <<>>,
       key_points |-> <<>>,
       mode |-> Str("local"), length |-> Str("medium"), file_type |-> Str("text")] }

Ids == 1..(MaxSaves + 1)
Limits == 0..MaxLimit
Formats == {"txt", "json", "csv"}

\* INTEGER PRIMARY KEY without AUTOINCREMENT: one more than the largest id in the table.
NextRowidReused(table, sequence) ==
    IF DOMAIN table = {} THEN 1
    ELSE (CHOOSE m \in DOMAIN table : \A i \in DOMAIN table : i <= m) + 1

\* A key that takes the first id no row holds.
NextRowidFirstFree(table, sequence) ==
    CHOOSE i \in 1..(Cardinality(DOMAIN table) + 1) :
        i \notin DOMAIN table /\ \A j \in 1..(i - 1) : j \in DOMAIN table

\* INTEGER PRIMARY KEY AUTOINCREMENT: one more than the largest id ever given.
NextRowid(table, sequence) == sequence + 1

\* The row INSERT writes: key_points as JSON text, created_at by default.
InsertedRow(id, a, ts) ==
    [id |-> id, filename |-> a.filename, original_text |-> a.original_text,
     summary |-> a.summary,
     key_points |-> JsonDumps(ToJson(a.key_points), NoIndent, 0),
     mode |-> a.mode, length |-> a.length, file_type |-> a.file_type,
     created_at |-> ts]

\* 'YYYY-MM-DD HH:MM:SS' of a second, as the text SQLite stores.
TimestampText(ts) == Digits(ts)

\* dict(row) alone: key_points stays the stored JSON text.
DictFromRowRaw(row) == [row EXCEPT !.created_at = TimestampText(@)]

DictFromRow(row) ==
    LET data == [row EXCEPT !.created_at = TimestampText(@)] IN
    IF data.key_points # <<>>
    THEN LET r == JsonLoads(data.key_points) IN
         [data EXCEPT !.key_points = IF r = None THEN <<>> ELSE FromJson(r[1])]
    ELSE data

GetSummaryValue(table, id) ==
    IF id \in DOMAIN table THEN Some(DictFromRow(table[id])) ELSE None

\* The table after INSERT of a row under id.
Inserted(table, id, a, ts) ==
    [i \in DOMAIN table \cup {id} |-> IF i = id THEN InsertedRow(id, a, ts) ELSE table[i]]

save_summary(a) ==
    /\ Len(hist) < MaxSaves
    /\ \E id \in {NextRowid(rows, seq)} :
        /\ rows' = Inserted(rows, id, a, now)
        /\ seq' = Max(seq, id)
        /\ hist' = Append(hist, [id |-> id, args |-> a])
        /\ ret' = [op |-> "save", id |-> id]
    /\ UNCHANGED <<now, gone, remote, initialized, nltk_data, threads>>

\* get_summary, and the status get_summary_by_id answers with.
get_summary(id) ==
    /\ \E value \in {GetSummaryValue(rows, id)} :
        ret' = [op |-> "get", id |-> id, value |-> value,
                http |-> IF value # None THEN 200 ELSE 404]
    /\ UNCHANGED <<rows, seq, now, hist, gone, remote, initialized, nltk_data, threads>>

\* The orders ORDER BY created_at DESC allows: rows of one second come in any order.
ListOrders(table) ==
    LET n == Cardinality(DOMAIN table) IN
    { p \in [1..n -> DOMAIN table] :
        /\ \A i, j \in 1..n : i # j => p[i] # p[j]
        /\ \A i, j \in 1..n : i < j => table[p[i]].created_at >= table[p[j]].created_at }

\* LIMIT n: a negative n is no limit.
LimitCount(n, limit) == IF limit < 0 THEN n ELSE Min(n, limit)

PreviewLen == 200

ListedRow(row) ==
    [id |-> row.id, filename |-> row.filename, mode |-> row.mode, length |-> row.length,
     file_type |-> row.file_type, created_at |-> TimestampText(row.created_at),
     summary_preview |-> Take(row.summary, PreviewLen)]

list_summaries(limit) ==
    /\ \E p \in ListOrders(rows) :
        ret' = [op |-> "list", limit |-> limit,
                value |-> [k \in 1..LimitCount(Len(p), limit) |-> ListedRow(rows[p[k]])]]
    /\ UNCHANGED <<rows, seq, now, hist, gone, remote, initialized, nltk_data, threads>>

\* delete_summary, and the status delete_summary_by_id answers with.
delete_summary(id) ==
    /\ \E deleted \in {id \in DOMAIN rows} :
        /\ rows' = [i \in DOMAIN rows \ {id} |-> rows[i]]
        /\ gone' = IF deleted THEN gone \cup {id} ELSE gone
        /\ ret' = [op |-> "delete", id |-> id, value |-> deleted,
                   http |-> IF deleted THEN 200 ELSE 404]
    /\ UNCHANGED <<seq, now, hist, remote, initialized, nltk_data, threads>>

\* "=" * 50, one chunk.
Rule == <<"==================================================">>

ColumnsAsJson(d) ==
    JObj(<< <<Str("id"), JInt(d.id)>>,
            <<Str("filename"), JStr(d.filename)>>,
            <<Str("original_text"), JStr(d.original_text)>>,
            <<Str("summary"), JStr(d.summary)>>,
            <<Str("key_points"), ToJson(d.key_points)>>,
            <<Str("mode"), JStr(d.mode)>>,
            <<Str("length"), JStr(d.length)>>,
            <<Str("file_type"), JStr(d.file_type)>>,
            <<Str("created_at"), JStr(d.created_at)>> >>)

ExportText(d) ==
    Join(<< <<"Document: ">> \o d.filename,
            <<"Date: ">> \o d.created_at,
            <<"Mode: ">> \o d.mode \o <<" | Length: ">> \o d.length,
            <<>>,
            Rule,
            <<"SUMMARY">>,
            Rule,
            d.summary,
            <<>>,
            Rule,
            <<"KEY POINTS">>,
            Rule >>
         \o [k \in 1..Len(d.key_points) |-> Digits(k) \o <<". ">> \o d.key_points[k]],
         <<"\n">>)

ExportSummaryValue(table, id, format) ==
    LET summary == GetSummaryValue(table, id) IN
    IF summary = None THEN None
    ELSE IF format = "json" THEN Some(JsonDumps(ColumnsAsJson(summary[1]), 2, 0))
    ELSE Some(ExportText(summary[1]))

\* export_summary, and the status export_summary_by_id answers with.
export_summary(id, format) ==
    /\ \E content \in {ExportSummaryValue(rows, id, format)} :
        ret' = [op |-> "export", id |-> id, format |-> format, value |-> content,
                http |-> IF content # None /\ content[1] # <<>> THEN 200 ELSE 404]
    /\ UNCHANGED <<rows, seq, now, hist, gone, remote, initialized, nltk_data, threads>>

\* A second passes.
Tick ==
    /\ now < MaxClock
    /\ now' = now + 1
    /\ UNCHANGED <<rows, seq, hist, gone, remote, ret, initialized, nltk_data, threads>>

Init ==
    /\ rows = <<>>
    /\ seq = 0
    /\ now = 0
    /\ hist = <<>>
    /\ gone = {}
    /\ remote = 0
    /\ ret = [op |-> "init"]
    /\ NoCallInFlight

NextStore ==
    \/ \E a \in SaveArgs : save_summary(a)
    \/ \E id \in Ids : get_summary(id)
    \/ \E limit \in Limits : list_summaries(limit)
    \/ \E id \in Ids : delete_summary(id)
    \/ \E id \in Ids, format \in Formats : export_summary(id, format)
    \/ Tick

SpecStore == Init /\ [][NextStore]_vars

(***************************************************************************)
(* summarizers.py.  A text is a sequence of segments, each one chunk: a    *)
(* sentence with content words ("a", "b"), a sentence of stopwords only    *)
(* ("t", "u"), a line written all in upper case ("H"), or white space.     *)
(* The sentence splitter, the stemmer and the numeric ranking belong to    *)
(* the libraries the code calls (sumy, nltk, numpy): the model takes the   *)
(* sentence boundaries as given and lets the ratings be any values.        *)
(***************************************************************************)
ContentSentences == {"a", "b"}
StopwordSentences == {"t", "u"}
SentenceSegs == ContentSentences \cup StopwordSentences
HeadingSeg == "H"
Whitespace == {" ", "\n"}

\* Bounds of the summariser's inputs.
MaxSegs == 9
MaxPoints == 3

\* All sequences over segs of length at most n.
SeqsUpTo(segs, n) == UNION {[1..k -> segs] : k \in 0..n}

RangeOf(s) == {s[k] : k \in DOMAIN s}

\* text.strip()
RECURSIVE LStrip(_)
LStrip(s) == IF s # <<>> /\ Head(s) \in Whitespace THEN LStrip(Tail(s)) ELSE s
RECURSIVE RStrip(_)
RStrip(s) ==
    IF s # <<>> /\ s[Len(s)] \in Whitespace THEN RStrip(SubSeq(s, 1, Len(s) - 1)) ELSE s
Strip(s) == RStrip(LStrip(s))

\* PlaintextParser.from_string(text, ...).document.sentences: the sentences in
\* order; an upper-case line is a heading, and no sentence.
IsSentence(seg) == seg \in SentenceSegs
DocumentSentences(text) == SelectSeq(text, IsSentence)

\* The stems of a segment's words that are not stopwords.
SurvivingTerms(seg) ==
    IF seg \in ContentSentences \/ seg = HeadingSeg THEN {seg} ELSE {}

\* LsaSummarizer._create_dictionary over document.words, headings included.
Dictionary(text) == UNION {SurvivingTerms(text[k]) : k \in DOMAIN text}

\* sequence[:count] of Python: how many items it keeps.
SliceLen(n, count) == IF count >= 0 THEN Min(n, count) ELSE Max(0, n + count)

\* sorted(infos, key=rating, reverse=True), a stable sort, as sentence orders:
\* the best rated of those left, the earlier of two rated alike, comes next.
RatedBefore(rate, i, j) == rate[i] > rate[j] \/ (rate[i] = rate[j] /\ i < j)
BestRated(rate, left) == CHOOSE i \in left : \A j \in left \ {i} : RatedBefore(rate, i, j)
RECURSIVE SortedByRating(_, _)
SortedByRating(rate, left) ==
    IF left = {} THEN <<>>
    ELSE <<BestRated(rate, left)>> \o SortedByRating(rate, left \ {BestRated(rate, left)})
ByRating(rate, n) == SortedByRating(rate, 1..n)

\* sorted(infos, key=order)
Earliest(left) == CHOOSE i \in left : \A j \in left : i <= j
RECURSIVE SortedByOrder(_)
SortedByOrder(left) ==
    IF left = {} THEN <<>>
    ELSE <<Earliest(left)>> \o SortedByOrder(left \ {Earliest(left)})
ByOrder(s) == SortedByOrder(RangeOf(s))

\* The best rated sentences, left in the order of their rating.
GetBestSentencesUnordered(n, count, rate) ==
    LET rated == ByRating(rate, n) IN SubSeq(rated, 1, SliceLen(n, count))

\* AbstractSummarizer._get_best_sentences: the orders of the sentences returned.
GetBestSentences(n, count, rate) ==
    LET rated == ByRating(rate, n) IN ByOrder(SubSeq(rated, 1, SliceLen(n, count)))

\* TextRankSummarizer.__call__: the ratings are a dict keyed by sentence.
TextRank(sentences, count, rating) ==
    IF sentences = <<>> THEN <<>>
    ELSE GetBestSentences(Len(sentences), count,
                          [i \in 1..Len(sentences) |-> rating[sentences[i]]])

\* LsaSummarizer.__call__: the ranks are one per sentence, in order.
Lsa(text, sentences, count, ranks) ==
    IF Dictionary(text) = {} THEN <<>>
    ELSE GetBestSentences(Len(sentences), count, ranks)

\* The ratings the model draws from: every weak order of the rated items.
TextRankRatings(sentences) ==
    { r \in [RangeOf(sentences) -> 1..Cardinality(RangeOf(sentences))] :
        RangeOf(sentences) = {} \/ \E x \in RangeOf(sentences) : r[x] = 1 }
LsaRanks(sentences) ==
    { r \in [1..Len(sentences) -> 1..Len(sentences)] :
        sentences = <<>> \/ \E i \in 1..Len(sentences) : r[i] = 1 }

Tiers == {"short", "medium", "long"}
DefaultSentenceCount == 5

\* sentence_counts.get(length, 3)
SentenceCountDefaultShort(length) ==
    CASE length = "short" -> 3
      [] length = "medium" -> 5
      [] length = "long" -> 8
      [] OTHER -> 3

SentenceCount(length) ==
    CASE length = "short" -> 3
      [] length = "medium" -> 5
      [] length = "long" -> 8
      [] OTHER -> DefaultSentenceCount

SummaryPrefixLen == 500
KeyPointPrefixLen == 200
DefaultMaxPoints == 5
Ellipsis == <<"...">>

SentenceTexts(sentences, picked) == [k \in 1..Len(picked) |-> <<sentences[picked[k]]>>]

\* LocalSummarizer.summarize: the sentences picked and the string returned.
LocalSummarize(text, length, rating) ==
    LET sentences == DocumentSentences(text)
        picked == TextRank(sentences, SentenceCount(length), rating)
        summary == Join(SentenceTexts(sentences, picked), <<" ">>)
    IN [picked |-> picked,
        value |-> IF summary # <<>> THEN summary
                  ELSE Take(text, SummaryPrefixLen) \o Ellipsis]

\* LocalSummarizer.extract_key_points: the sentences picked and the list returned.
LocalKeyPoints(text, max_points, ranks) ==
    LET sentences == DocumentSentences(text)
        picked == Lsa(text, sentences, max_points, ranks)
        key_points == SentenceTexts(sentences, picked)
    IN [picked |-> picked,
        value |-> IF key_points # <<>> THEN key_points
                  ELSE <<Take(text, KeyPointPrefixLen) \o Ellipsis>>]

\* numpy's SVD of a matrix with terms and no sentence column: it raises
\* LinAlgError or gives empty factors, by the numpy installed.
SvdMayRaise(text) == Dictionary(text) # {} /\ DocumentSentences(text) = <<>>

\* A direct call of LocalSummarizer().summarize(text, length).
local_summarize(text, lengths) ==
    /\ \E length \in lengths, rating \in TextRankRatings(DocumentSentences(text)) :
        \E r \in {LocalSummarize(text, length, rating)} :
        ret' = [op |-> "summarize", strategy |-> "local", text |-> text, length |-> length,
                raised |-> FALSE, picked |-> r.picked, value |-> r.value]
    /\ remote' = 0
    /\ UNCHANGED <<rows, seq, now, hist, gone, initialized, nltk_data, threads>>

\* A direct call of LocalSummarizer().extract_key_points(text, max_points).
local_extract_key_points(text, points) ==
    /\ \E max_points \in points, ranks \in LsaRanks(DocumentSentences(text)),
          raised \in IF SvdMayRaise(text) THEN BOOLEAN ELSE {FALSE} :
        \E r \in {LocalKeyPoints(text, max_points, ranks)} :
        ret' = [op |-> "extract_key_points", strategy |-> "local", text |-> text,
                max_points |-> max_points, raised |-> raised,
                picked |-> IF raised THEN <<>> ELSE r.picked,
                value |-> IF raised THEN <<>> ELSE r.value]
    /\ remote' = 0
    /\ UNCHANGED <<rows, seq, now, hist, gone, initialized, nltk_data, threads>>

\* Texts of sentences with at most one upper-case line among them.
SummarizeTexts ==
    { t \in SeqsUpTo(ContentSentences \cup {HeadingSeg}, MaxSegs) :
        \A i, j \in DOMAIN t : (t[i] = HeadingSeg /\ t[j] = HeadingSeg) => i = j }

InitSummarize ==
    /\ rows = <<>> /\ seq = 0 /\ now = 0 /\ hist = <<>> /\ gone = {} /\ remote = 0
    /\ NoCallInFlight
    /\ ret \in {[op |-> "input", text |-> t, lengths |-> Tiers \cup {"huge"}, points |-> {}] :
                    t \in SummarizeTexts}

\* The call is made once, on the text drawn.
NextSummarize == ret.op = "input" /\ local_summarize(ret.text, ret.lengths)

SpecSummarize == InitSummarize /\ [][NextSummarize]_vars

\* Texts of the key point extractor: short, of every kind of segment.
KeyPointTexts == SeqsUpTo(SentenceSegs \cup {HeadingSeg, " "}, MaxPoints)

(***************************************************************************)
(* Calls of one LocalSummarizer from several threads.  A step is one       *)
(* statement of _initialize or the rest of the call.  nltk.download        *)
(* writes a package over a span of time; what nltk.data.find and the       *)
(* tokenizer make of a package being written is not fixed by the code,     *)
(* and is any of the outcomes.                                             *)
(***************************************************************************)
NumThreads == 2
Threads == 1..NumThreads

\* The packages Tokenizer("english") loads.
TokenizerPackages == {1, 2}

\* The calls the threads make: the operation, and the ranking the text has.
CallInputs ==
    {[pc |-> "initialize", k |-> 0, op |-> "summarize", text |-> <<"a", "b">>,
      rank |-> r, result |-> None] : r \in TextRankRatings(<<"a", "b">>)}
    \cup {[pc |-> "initialize", k |-> 0, op |-> "extract_key_points", text |-> <<"a", "b">>,
           rank |-> r, result |-> None] : r \in LsaRanks(<<"a", "b">>)}

\* What the call returns when its packages can be loaded.
Returned(c) ==
    IF c.op = "summarize" THEN LocalSummarize(c.text, "short", c.rank).value
    ELSE LocalKeyPoints(c.text, 1, c.rank).value

\* The result of the call when no other call runs: _initialize downloads
\* what is missing, and the tokenizer raises LookupError for what stays missing.
Alone(c, first, network) ==
    IF \A k \in TokenizerPackages : first[k] = "ready" \/ network
    THEN [raised |-> FALSE, value |-> Returned(c)]
    ELSE [raised |-> TRUE, value |-> <<>>]

\* The end of one turn of the loop over required_packages.
NextPackage(c) ==
    IF c.k < Len(Packages) THEN [c EXCEPT !.pc = "find", !.k = c.k + 1]
    ELSE [c EXCEPT !.pc = "flag"]

\* if self._initialized: return
CheckInitialized(t) ==
    /\ threads[t].pc = "initialize"
    /\ threads' = [threads EXCEPT ![t] = IF initialized THEN [@ EXCEPT !.pc = "compute"]
                                     ELSE [@ EXCEPT !.pc = "find", !.k = 1]]
    /\ UNCHANGED <<rows, seq, now, hist, gone, remote, ret, initialized, nltk_data>>

\* nltk.data.find(...): LookupError when the package is not there.
Find(t) ==
    /\ threads[t].pc = "find"
    /\ \E found \in CASE nltk_data.packages[threads[t].k] = "ready" -> {TRUE}
                      [] nltk_data.packages[threads[t].k] = "missing" -> {FALSE}
                      [] OTHER -> BOOLEAN :
        threads' = [threads EXCEPT ![t] = IF found THEN NextPackage(@)
                                      ELSE [@ EXCEPT !.pc = "download"]]
    /\ UNCHANGED <<rows, seq, now, hist, gone, remote, ret, initialized, nltk_data>>

\* nltk.download(package, quiet=True) starts: it returns False without a
\* network, else it begins to write the package.
Download(t) ==
    /\ threads[t].pc = "download"
    /\ IF nltk_data.network
       THEN /\ nltk_data' = [nltk_data EXCEPT !.packages[threads[t].k] =
                                IF @ = "ready" THEN "ready" ELSE "partial"]
            /\ threads' = [threads EXCEPT ![t].pc = "downloading"]
       ELSE /\ threads' = [threads EXCEPT ![t] = NextPackage(@)]
            /\ UNCHANGED nltk_data
    /\ UNCHANGED <<rows, seq, now, hist, gone, remote, ret, initialized>>

\* nltk.download returns: the package is written.
Downloaded(t) ==
    /\ threads[t].pc = "downloading"
    /\ nltk_data' = [nltk_data EXCEPT !.packages[threads[t].k] = "ready"]
    /\ threads' = [threads EXCEPT ![t] = NextPackage(@)]
    /\ UNCHANGED <<rows, seq, now, hist, gone, remote, ret, initialized>>

\* self._initialized = True
SetInitialized(t) ==
    /\ threads[t].pc = "flag"
    /\ initialized' = TRUE
    /\ threads' = [threads EXCEPT ![t].pc = "compute"]
    /\ UNCHANGED <<rows, seq, now, hist, gone, remote, ret, nltk_data>>

\* The rest of summarize or extract_key_points, on objects of the call's own.
Compute(t) ==
    /\ threads[t].pc = "compute"
    /\ \E loads \in CASE \A k \in TokenizerPackages : nltk_data.packages[k] = "ready" -> {TRUE}
                      [] \E k \in TokenizerPackages : nltk_data.packages[k] = "missing" -> {FALSE}
                      [] OTHER -> BOOLEAN :
        threads' = [threads EXCEPT ![t] =
                    [@ EXCEPT !.pc = "done",
                              !.result = IF loads
                                         THEN Some([raised |-> FALSE, value |-> Returned(threads[t])])
                                         ELSE Some([raised |-> TRUE, value |-> <<>>])]]
    /\ UNCHANGED <<rows, seq, now, hist, gone, remote, ret, initialized, nltk_data>>

\* A fresh instance, any packages on disk, a network or none.
InitConcurrent ==
    /\ rows = <<>> /\ seq = 0 /\ now = 0 /\ hist = <<>> /\ gone = {} /\ remote = 0
    /\ ret = [op |-> "init"]
    /\ initialized = FALSE
    /\ \E p \in [DOMAIN Packages -> {"missing", "ready"}], network \in BOOLEAN :
          nltk_data = [packages |-> p, network |-> network, first |-> p]
    /\ threads \in [Threads -> CallInputs]

NextConcurrent ==
    \E t \in Threads :
        \/ CheckInitialized(t)
        \/ Find(t)
        \/ Download(t)
        \/ Downloaded(t)
        \/ SetInitialized(t)
        \/ Compute(t)

SpecConcurrent == InitConcurrent /\ [][NextConcurrent]_vars

(***************************************************************************)
(* OnlineSummarizer and get_summarizer.  The service's reply is an input:  *)
(* None when generate_content raises, else the text of the response.  An   *)
(* api_key is None or a string.                                            *)
(***************************************************************************)
NoError == "none"

CallOk(value, calls) == [raised |-> NoError, value |-> value, calls |-> calls]
CallRaised(error, calls) == [raised |-> error, value |-> <<>>, calls |-> calls]

\* 'self.api_key is None' in place of 'not self.api_key'.
IsFalsyNoneOnly(api_key) == api_key = None

\* not api_key
IsFalsy(api_key) == api_key = None \/ api_key[1] = <<>>

\* length_instructions.get(length, 'in 4-6 sentences'): the instruction of the prompt.
LengthInstruction(length) ==
    CASE length = "short" -> "in 2-3 sentences"
      [] length = "medium" -> "in 4-6 sentences"
      [] length = "long" -> "in a detailed paragraph of 8-10 sentences"
      [] OTHER -> "in 4-6 sentences"

\* OnlineSummarizer.summarize: _get_model, then one generate_content call.
OnlineSummarize(api_key, reply) ==
    IF IsFalsy(api_key) THEN CallRaised("ValueError", 0)
    ELSE IF reply = None THEN CallRaised("RemoteError", 1)
    ELSE CallOk(Strip(reply[1]), 1)

\* str.split('\n')
RECURSIVE SplitLines(_)
SplitLines(s) ==
    IF \A k \in DOMAIN s : s[k] # "\n" THEN <<s>>
    ELSE LET i == CHOOSE k \in DOMAIN s : s[k] = "\n" /\ \A j \in 1..(k - 1) : s[j] # "\n"
         IN <<SubSeq(s, 1, i - 1)>> \o SplitLines(SubSeq(s, i + 1, Len(s)))

\* The bullet characters; "&bull;" is U+2022, one chunk.
Bullets == {"&bull;", "-", "*"}

\* re.sub(r'^[(U+2022)\-\*]\s*', '', line)
RemoveBullet(line) ==
    IF line # <<>> /\ Head(line) \in Bullets THEN LStrip(Tail(line)) ELSE line

\* The loop over the lines of the reply.
RECURSIVE CollectPoints(_, _, _)
CollectPoints(lines, key_points, max_points) ==
    IF lines = <<>> THEN key_points
    ELSE LET line == RemoveBullet(Strip(Head(lines))) IN
         CollectPoints(Tail(lines),
                       IF line # <<>> /\ Len(key_points) < max_points
                       THEN Append(key_points, line) ELSE key_points,
                       max_points)

\* The loop without 'len(key_points) < max_points'.
ParseKeyPointsUncapped(reply, max_points) ==
    LET key_points == CollectPoints(SplitLines(Strip(reply)), <<>>, Len(reply) + 1) IN
    IF key_points # <<>> THEN key_points ELSE <<Strip(reply)>>

ParseKeyPoints(reply, max_points) ==
    LET key_points == CollectPoints(SplitLines(Strip(reply)), <<>>, max_points) IN
    IF key_points # <<>> THEN key_points ELSE <<Strip(reply)>>

\* OnlineSummarizer.extract_key_points.
OnlineKeyPoints(api_key, reply, max_points) ==
    IF IsFalsy(api_key) THEN CallRaised("ValueError", 0)
    ELSE IF reply = None THEN CallRaised("RemoteError", 1)
    ELSE CallOk(ParseKeyPoints(reply[1], max_points), 1)

GetSummarizer(mode) == IF mode = "online" THEN "online" ELSE "local"

\* Replies of the service: a failure, or text with white space and bullets.
SummaryReplies == {None, Some(<<" ", "s", "\n">>)}
KeyPointReplies == {None, Some(<<"&bull;", " ", "p", "\n", "\n", "-", "q", " ">>)}

\* What summarizer.summarize(text, length) may come to.
SummarizeCalls(strategy, api_key, text, length) ==
    IF strategy = "online" THEN {OnlineSummarize(api_key, reply) : reply \in SummaryReplies}
    ELSE {CallOk(LocalSummarize(text, length, rating).value, 0) :
              rating \in TextRankRatings(DocumentSentences(text))}

\* What summarizer.extract_key_points(text) may come to.
KeyPointCalls(strategy, api_key, text) ==
    IF strategy = "online"
    THEN {OnlineKeyPoints(api_key, reply, DefaultMaxPoints) : reply \in KeyPointReplies}
    ELSE {CallOk(LocalKeyPoints(text, DefaultMaxPoints, ranks).value, 0) :
              ranks \in LsaRanks(DocumentSentences(text))}
         \cup (IF SvdMayRaise(text) THEN {CallRaised("LinAlgError", 0)} ELSE {})

\* A handler that answers with the summary when extract_key_points raised.
BothCallsPartial(s, k) ==
    IF s.raised # NoError
    THEN [raised |-> s.raised, summary |-> <<>>, key_points |-> <<>>, calls |-> s.calls]
    ELSE [raised |-> NoError, summary |-> s.value, key_points |-> k.value,
          calls |-> s.calls + k.calls]

\* summarize, then extract_key_points: the first exception ends both.
BothCalls(s, k) ==
    IF s.raised # NoError
    THEN [raised |-> s.raised, summary |-> <<>>, key_points |-> <<>>, calls |-> s.calls]
    ELSE IF k.raised # NoError
    THEN [raised |-> k.raised, summary |-> <<>>, key_points |-> <<>>,
          calls |-> s.calls + k.calls]
    ELSE [raised |-> NoError, summary |-> s.value, key_points |-> k.value,
          calls |-> s.calls + k.calls]

\* History: a generate_content call of the request raised.
RemoteFailed(s, k) ==
    s.raised = "RemoteError" \/ (s.raised = NoError /\ k.raised = "RemoteError")

\* The outcomes of the two calls a request makes, with that history.
Summarized(mode, api_key, text, length) ==
    { [out |-> BothCalls(s, k), remote_failed |-> RemoteFailed(s, k)] :
          s \in SummarizeCalls(GetSummarizer(mode), api_key, text, length),
          k \in KeyPointCalls(GetSummarizer(mode), api_key, text) }

\* A direct call of OnlineSummarizer(api_key).summarize(text, length).
online_summarize(api_key, text, length) ==
    /\ \E r \in SummarizeCalls("online", api_key, text, length) :
        /\ ret' = [op |-> "summarize", strategy |-> "online", text |-> text,
                   length |-> length, api_key |-> api_key,
                   instruction |-> LengthInstruction(length),
                   raised |-> r.raised # NoError, error |-> r.raised, value |-> r.value]
        /\ remote' = r.calls
    /\ UNCHANGED <<rows, seq, now, hist, gone, initialized, nltk_data, threads>>

\* A direct call of OnlineSummarizer(api_key).extract_key_points(text, max_points).
online_extract_key_points(api_key, text, replies, points) ==
    /\ \E reply \in replies, max_points \in points :
       \E r \in {OnlineKeyPoints(api_key, reply, max_points)} :
        /\ ret' = [op |-> "extract_key_points", strategy |-> "online", text |-> text,
                   max_points |-> max_points, api_key |-> api_key, reply |-> reply,
                   raised |-> r.raised # NoError, error |-> r.raised, value |-> r.value]
        /\ remote' = r.calls
    /\ UNCHANGED <<rows, seq, now, hist, gone, initialized, nltk_data, threads>>

\* Replies of the service to the key point prompt: any text of bullets,
\* words, spaces and line ends.
MaxReply == 6
ReplyTexts == SeqsUpTo({"-", "p", " ", "\n"}, MaxReply)

InitKeyPoints ==
    /\ rows = <<>> /\ seq = 0 /\ now = 0 /\ hist = <<>> /\ gone = {} /\ remote = 0
    /\ NoCallInFlight
    /\ ret \in {[op |-> "input", strategy |-> "local", text |-> t, reply |-> None,
                  lengths |-> {}, points |-> 0..MaxPoints] : t \in KeyPointTexts}
               \cup {[op |-> "input", strategy |-> "online", text |-> <<"a">>,
                      reply |-> Some(r), lengths |-> {}, points |-> 0..MaxPoints] :
                          r \in ReplyTexts}

NextKeyPoints ==
    /\ ret.op = "input"
    /\ IF ret.strategy = "local"
       THEN local_extract_key_points(ret.text, ret.points)
       ELSE online_extract_key_points(Some(<<"k">>), ret.text, {ret.reply}, ret.points)

SpecKeyPoints == InitKeyPoints /\ [][NextKeyPoints]_vars

(***************************************************************************)
(* app.py and cli.py: the /api/summarize handler and the summarize         *)
(* command, each one step from the request to the response or exit code.   *)
(***************************************************************************)
\* Records the requests of one run may save.
MaxRequestSaves == 1

Modes == {"local", "online"}
ApiKeys == {None, Some(<<>>), Some(<<"k">>)}
AppTexts == {<<>>, <<" ">>, <<"a", "b">>}

\* The documents given to the parsers: one that cannot be parsed, one of
\* white space, one with text.
Documents ==
    {[name |-> <<"f.pdf">>, parses |-> FALSE, content |-> <<>>, file_type |-> "pdf"],
     [name |-> <<"f.txt">>, parses |-> TRUE, content |-> <<" ">>, file_type |-> "text"],
     [name |-> <<"f.txt">>, parses |-> TRUE, content |-> <<"a", "b", "\n">>,
      file_type |-> "text"]}

\* detect_and_parse: it raises ValueError, or gives the stripped text and the type.
DetectAndParse(doc) ==
    [parses |-> doc.parses, text |-> IF doc.parses THEN Strip(doc.content) ELSE <<>>,
     filename |-> doc.name, file_type |-> doc.file_type]

\* The body of a POST: none, an uploaded file, or JSON with a text.
HttpBodies ==
    {[kind |-> "none", parses |-> TRUE, text |-> <<>>, filename |-> <<"pasted_text">>,
      file_type |-> "text"]}
    \cup {[kind |-> "upload"] @@ DetectAndParse(doc) : doc \in Documents}
    \cup {[kind |-> "json", parses |-> TRUE, text |-> t, filename |-> <<"pasted_text">>,
           file_type |-> "text"] : t \in AppTexts}

\* request.args.get('length', 'medium'): any string.
HttpLengths == {"medium", "huge"}

\* request.args.get('api_key', ''): a string, read for the online mode only.
HttpApiKeys(mode) == IF mode = "online" THEN ApiKeys \ {None} ELSE {Some(<<>>)}

\* The error that ends the handler before a summarizer is made.
HttpEarlyError(body) ==
    IF ~body.parses THEN "ParseError"
    ELSE IF body.kind = "none" \/ body.text = <<>> \/ Strip(body.text) = <<>> THEN "NoText"
    ELSE NoError

\* except ValueError: 400; except Exception: 500; else 200.
HttpStatus(error) ==
    CASE error = NoError -> 200
      [] error \in {"NoText", "ParseError", "ValueError"} -> 400
      [] OTHER -> 500

\* The handler saves in the middle of the two calls' try block, whatever they raised.
SavesRecordOnError(should_save, raised) == should_save

\* 'if should_save:' comes after both calls returned.
SavesRecord(should_save, raised) == should_save /\ raised = NoError

RequestArgs(filename, text, out, mode, length, file_type) ==
    [filename |-> filename, original_text |-> text, summary |-> out.summary,
     key_points |-> out.key_points, mode |-> Str(mode), length |-> Str(length),
     file_type |-> file_type]

\* The effect of a request on the store and on the service.
RequestEffect(saves, a, id, calls) ==
    /\ remote' = calls
    /\ IF saves
       THEN /\ Len(hist) < MaxRequestSaves
            /\ rows' = Inserted(rows, id, a, now)
            /\ seq' = Max(seq, id)
            /\ hist' = Append(hist, [id |-> id, args |-> a])
       ELSE UNCHANGED <<rows, seq, hist>>
    /\ UNCHANGED <<now, gone, initialized, nltk_data, threads>>

http_summarize ==
    \E mode \in Modes, length \in HttpLengths, should_save \in BOOLEAN, body \in HttpBodies :
    \E api_key \in HttpApiKeys(mode), id \in {NextRowid(rows, seq)} :
        IF HttpEarlyError(body) # NoError
        THEN /\ ret' = [op |-> "http_summarize", mode |-> mode, api_key |-> api_key,
                        text |-> body.text, length |-> length, should_save |-> should_save,
                        filename |-> body.filename, file_type |-> body.file_type,
                        error |-> HttpEarlyError(body),
                        status |-> HttpStatus(HttpEarlyError(body)),
                        summary |-> <<>>, key_points |-> <<>>, saved_id |-> None,
                        remote_failed |-> FALSE]
             /\ RequestEffect(FALSE, <<>>, id, 0)
        ELSE \E r \in Summarized(mode, IF mode = "online" THEN api_key ELSE None,
                                 body.text, length) :
             \E saves \in {SavesRecord(should_save, r.out.raised)} :
             /\ ret' = [op |-> "http_summarize", mode |-> mode, api_key |-> api_key,
                        text |-> body.text, length |-> length, should_save |-> should_save,
                        filename |-> body.filename, file_type |-> body.file_type,
                        error |-> r.out.raised, status |-> HttpStatus(r.out.raised),
                        summary |-> r.out.summary, key_points |-> r.out.key_points,
                        saved_id |-> IF saves THEN Some(id) ELSE None,
                        remote_failed |-> r.remote_failed]
             /\ RequestEffect(saves,
                              RequestArgs(body.filename, body.text, r.out, mode, length,
                                          Str(body.file_type)),
                              id, r.out.calls)

\* detect_and_parse(file_path) of the file named on the command line.
CliFiles == {DetectAndParse(doc) : doc \in Documents}

\* click.Choice(['short', 'medium', 'long'])
CliLengths == {"long"}

\* --api-key or GEMINI_API_KEY: absent or a key; read for the online mode only.
CliApiKeys(mode) == IF mode = "online" THEN ApiKeys \ {Some(<<>>)} ELSE {None}

\* --output: none, a path that can be written, a path that cannot.
CliOutputs == {"none", "written", "fails"}

\* The error that ends the command before a summarizer is made.
CliEarlyError(file, mode, api_key) ==
    IF ~file.parses THEN "ParseError"
    ELSE IF Strip(file.text) = <<>> THEN "NoText"
    ELSE IF mode = "online" /\ IsFalsy(api_key) THEN "MissingKey"
    ELSE NoError

\* sys.exit(1) on every error.
CliStatus(error) == IF error = NoError THEN 0 ELSE 1

cli_summarize ==
    \E file \in CliFiles, mode \in Modes, length \in CliLengths, save \in BOOLEAN,
       output \in CliOutputs :
    \E api_key \in CliApiKeys(mode), id \in {NextRowid(rows, seq)} :
        IF CliEarlyError(file, mode, api_key) # NoError
        THEN /\ ret' = [op |-> "cli_summarize", mode |-> mode, api_key |-> api_key,
                        text |-> file.text, length |-> length, should_save |-> save,
                        filename |-> file.filename, file_type |-> file.file_type,
                        output |-> output,
                        error |-> CliEarlyError(file, mode, api_key), status |-> 1,
                        summary |-> <<>>, key_points |-> <<>>, saved_id |-> None,
                        remote_failed |-> FALSE]
             /\ RequestEffect(FALSE, <<>>, id, 0)
        ELSE \E r \in Summarized(mode, api_key, file.text, length) :
             \E saves \in {SavesRecord(save, r.out.raised)},
                error \in {IF r.out.raised = NoError /\ output = "fails"
                           THEN "OutputError" ELSE r.out.raised} :
             /\ ret' = [op |-> "cli_summarize", mode |-> mode, api_key |-> api_key,
                        text |-> file.text, length |-> length, should_save |-> save,
                        filename |-> file.filename, file_type |-> file.file_type,
                        output |-> output,
                        error |-> error, status |-> CliStatus(error),
                        summary |-> r.out.summary, key_points |-> r.out.key_points,
                        saved_id |-> IF saves THEN Some(id) ELSE None,
                        remote_failed |-> r.remote_failed]
             /\ RequestEffect(saves,
                              RequestArgs(file.filename, file.text, r.out, mode, length,
                                          Str(file.file_type)),
                              id, r.out.calls)

\* Texts and lengths of the direct calls: the texts of the requests and one
\* of more sentences than the default count; a tier and a string that is none.
DirectTexts == AppTexts \cup {<<"a", "b", "a", "b", "a", "b">>}
DirectLengths == {"medium", "huge"}

Next ==
    \/ http_summarize
    \/ cli_summarize
    \/ \E text \in DirectTexts : local_summarize(text, DirectLengths)
    \/ \E text \in AppTexts : local_extract_key_points(text, {DefaultMaxPoints})
    \/ \E api_key \in ApiKeys, text \in AppTexts, length \in DirectLengths :
          online_summarize(api_key, text, length)
    \/ \E api_key \in ApiKeys, text \in AppTexts :
          online_extract_key_points(api_key, text, KeyPointReplies, {DefaultMaxPoints})

Spec == Init /\ [][Next]_vars

(***************************************************************************)
(* Properties of the store.                                                *)
(***************************************************************************)
\* A step of operation op: every step but Tick leaves its outcome in ret.
StepOf(op) == ret'.op = op /\ now' = now

SameAsSaved(d, a) ==
    /\ d.filename = a.filename
    /\ d.summary = a.summary
    /\ d.key_points = a.key_points
    /\ d.mode = a.mode
    /\ d.length = a.length
    /\ d.file_type = a.file_type

\* C1: get_summary(id) of an id save_summary returned, and that has not been
\* deleted, returns a record whose filename, summary, key_points (the list),
\* mode, length and file_type are the saved ones, whatever saves and
\* deletes of other ids happened in between.
C1_SaveGetRoundTrip ==
    ret.op = "get" =>
        \A k \in DOMAIN hist :
            (hist[k].id = ret.id /\ ret.id \notin gone) =>
                /\ ret.value # None
                /\ SameAsSaved(ret.value[1], hist[k].args)

C1_Witness ==
    /\ ret.op = "get"
    /\ ret.value # None
    /\ Len(ret.value[1].key_points) >= 3
    /\ Len(hist) >= 2
    /\ gone # {}

\* C2: once delete_summary(id) has returned True, id is in no later state of
\* the table and every later get_summary(id) returns None (404); and a
\* delete_summary of an id that is not stored returns False (404) and
\* leaves the table as it was.
C2_DeleteSemantics ==
    /\ [](/\ gone \cap DOMAIN rows = {}
          /\ (ret.op = "get" /\ ret.id \in gone) => (ret.value = None /\ ret.http = 404))
    /\ [][(StepOf("delete") /\ ret'.id \notin DOMAIN rows) =>
              (ret'.value = FALSE /\ ret'.http = 404 /\ rows' = rows)]_vars

C2_Witness ==
    /\ ret.op = "get"
    /\ ret.id \in gone
    /\ Len(hist) >= 2
    /\ DOMAIN rows # {}

\* The place of the save that returned id among all saves.
SavePlace(id) == CHOOSE k \in DOMAIN hist : hist[k].id = id

ListedPlace(listed, id) == CHOOSE k \in DOMAIN listed : listed[k].id = id

\* C3: list_summaries(limit) returns at most limit records, most recent
\* first: of two stored records the one saved later comes before the one
\* saved earlier, also when both were saved within one second.
C3_ListMostRecentFirst ==
    ret.op = "list" =>
        /\ Len(ret.value) <= ret.limit
        /\ \A a, b \in DOMAIN rows :
            (SavePlace(a) > SavePlace(b) /\ \E k \in DOMAIN ret.value : ret.value[k].id = b) =>
                /\ \E k \in DOMAIN ret.value : ret.value[k].id = a
                /\ ListedPlace(ret.value, a) < ListedPlace(ret.value, b)

HasMember(o, key) == \E k \in DOMAIN o.v : o.v[k][1] = key
Member(o, key) == o.v[CHOOSE k \in DOMAIN o.v : o.v[k][1] = key][2]

ParsesBackTo(text, a) ==
    LET parsed == JsonLoads(text) IN
    /\ parsed # None
    /\ parsed[1].t = "obj"
    /\ \A key \in {"filename", "summary", "key_points", "mode", "length", "file_type"} :
          HasMember(parsed[1], Str(key))
    /\ Member(parsed[1], Str("filename")) = JStr(a.filename)
    /\ Member(parsed[1], Str("summary")) = JStr(a.summary)
    /\ Member(parsed[1], Str("key_points")) = ToJson(a.key_points)
    /\ Member(parsed[1], Str("mode")) = JStr(a.mode)
    /\ Member(parsed[1], Str("length")) = JStr(a.length)
    /\ Member(parsed[1], Str("file_type")) = JStr(a.file_type)

\* C10: export_summary(id, 'json') of a stored record is text that parses
\* back as JSON to the saved filename, summary, key_points, mode, length
\* and file_type; export_summary of an id that is not stored is None (404)
\* in every format; and no export changes the table.
C10_ExportJson ==
    /\ [](ret.op = "export" =>
            /\ ret.id \notin DOMAIN rows => (ret.value = None /\ ret.http = 404)
            /\ (ret.id \in DOMAIN rows /\ ret.format = "json") =>
                  /\ ret.value # None
                  /\ \A k \in DOMAIN hist :
                        hist[k].id = ret.id => ParsesBackTo(ret.value[1], hist[k].args))
    /\ [][StepOf("export") => (rows' = rows /\ seq' = seq)]_vars

C10_Witness ==
    /\ ret.op = "export"
    /\ ret.format = "json"
    /\ ret.value # None
    /\ \E k \in DOMAIN hist : hist[k].id = ret.id /\ Len(hist[k].args.key_points) >= 3

\* C13: over any sequence of save_summary and delete_summary, the ids
\* save_summary returned are pairwise distinct, also after the record with
\* the highest id was deleted, and a stored id holds the record of the
\* save that returned it.
C13_IdsNeverReused ==
    /\ \A i, j \in DOMAIN hist : i # j => hist[i].id # hist[j].id
    /\ \A k \in DOMAIN hist :
          hist[k].id \in DOMAIN rows =>
              SameAsSaved(DictFromRow(rows[hist[k].id]), hist[k].args)
    /\ \A id \in DOMAIN rows : \E k \in DOMAIN hist : hist[k].id = id

\* A save right after the only record, the one with the highest id, was deleted.
C13_Witness ==
    /\ ret.op = "save"
    /\ Len(hist) = 2
    /\ hist[1].id \in gone
    /\ hist[1].args # hist[2].args
    /\ DOMAIN rows = {ret.id}

(***************************************************************************)
(* Properties of the local summariser.                                     *)
(***************************************************************************)
\* The target count the length tiers are documented to have.
TierCount(length) ==
    CASE length = "short" -> 3
      [] length = "medium" -> 5
      [] length = "long" -> 8

\* value is count sentences of the text (all of them when there are fewer),
\* picked at strictly increasing places, none twice, joined by one space.
IsSelectionOf(text, count, picked, value) ==
    LET sentences == DocumentSentences(text) IN
    /\ Len(picked) = Min(count, Len(sentences))
    /\ \A k \in DOMAIN picked : picked[k] \in 1..Len(sentences)
    /\ \A k \in 1..(Len(picked) - 1) : picked[k] < picked[k + 1]
    /\ value = Join(SentenceTexts(sentences, picked), <<" ">>)
    /\ Len(sentences) < count => picked = [k \in 1..Len(sentences) |-> k]

C9_StopwordsOnlyFallback ==
    (/\ ret.op = "extract_key_points"
     /\ ret.max_points >= 1
     /\ DocumentSentences(ret.text) # <<>>
     /\ Dictionary(ret.text) = {}) =>
        /\ ~ret.raised
        /\ ret.value = [k \in 1..Min(ret.max_points, Len(DocumentSentences(ret.text))) |->
                            <<DocumentSentences(ret.text)[k]>>]

(***************************************************************************)
(* Properties of the requests.                                             *)
(***************************************************************************)
IsRequest(r) == r.op \in {"http_summarize", "cli_summarize"}

\* The response is an error response: HTTP 400 or 500, exit code 1.
EndsInError(r) ==
    IF r.op = "http_summarize" THEN r.status \in {400, 500} ELSE r.status = 1

NoResult(r) == r.summary = <<>> /\ r.key_points = <<>>

IsDirectCall(r) == r.op \in {"summarize", "extract_key_points"}

\* C5: empty or white-space-only text is rejected with an error, and no
\* summary or key point list is produced for it, by the /api/summarize
\* handler, by the CLI summarize command, and by a direct call of
\* LocalSummarizer.summarize or extract_key_points.
C5_BlankInputRejected ==
    /\ (IsRequest(ret) /\ Strip(ret.text) = <<>>) => (EndsInError(ret) /\ NoResult(ret))
    /\ (IsDirectCall(ret) /\ ret.strategy = "local" /\ Strip(ret.text) = <<>>) => ret.raised

NoCredential == {None, Some(<<>>)}

\* C6: with the online strategy and no credential (None or ''), every
\* request ends in an error (ValueError of a direct call, HTTP 400, exit
\* code 1), returns no summary and no key points, and sends nothing to the
\* service.
C6_MissingCredential ==
    /\ (IsRequest(ret) /\ ret.mode = "online" /\ ret.api_key \in NoCredential) =>
          /\ ret.status = IF ret.op = "http_summarize" THEN 400 ELSE 1
          /\ NoResult(ret)
          /\ ret.saved_id = None
          /\ remote = 0
    /\ (IsDirectCall(ret) /\ ret.strategy = "online" /\ ret.api_key \in NoCredential) =>
          /\ ret.raised
          /\ ret.error = "ValueError"
          /\ ret.value = <<>>
          /\ remote = 0

C6_Witness ==
    /\ ret.op = "http_summarize"
    /\ ret.mode = "online"
    /\ ret.api_key = Some(<<>>)
    /\ ret.error = "ValueError"
    /\ Strip(ret.text) # <<>>

\* C7: when the online strategy is selected and a call of the service
\* fails, in summarize or in the extract_key_points after it, the request
\* ends in an error response that carries no summary and no key points:
\* neither the local strategy's output nor a summary alone.
C7_RemoteFailureSurfaced ==
    (IsRequest(ret) /\ ret.mode = "online" /\ ret.remote_failed) =>
        /\ EndsInError(ret)
        /\ NoResult(ret)
        /\ ret.saved_id = None

C7_Witness ==
    /\ IsRequest(ret)
    /\ ret.mode = "online"
    /\ ret.remote_failed
    /\ remote = 2

\* The errors the claim lists: empty input, parse failure, missing
\* credential, summarizer failure.
ListedErrors == {"NoText", "ParseError", "MissingKey", "ValueError", "RemoteError", "LinAlgError"}

Columns ==
    {"id", "filename", "original_text", "summary", "key_points", "mode", "length",
     "file_type", "created_at"}

\* The row holds all seven fields of the request r, written by its one insert.
CompleteRecord(row, r) ==
    /\ DOMAIN row = Columns
    /\ row.filename = r.filename
    /\ row.original_text = r.text
    /\ row.summary = r.summary
    /\ JsonLoads(row.key_points) = Some(ToJson(r.key_points))
    /\ row.mode = Str(r.mode)
    /\ row.length = Str(r.length)
    /\ row.file_type = Str(r.file_type)

\* C8: a request that ends in one of the listed errors leaves the stored
\* records as they were; a request inserts a record only when save was
\* requested and summarize and extract_key_points both returned; and the
\* record inserted is one new row holding all seven fields.
C8_NoPartialState ==
    [][IsRequest(ret') =>
          /\ ret'.error \in ListedErrors => (rows' = rows /\ seq' = seq)
          /\ rows' # rows =>
                /\ ret'.should_save
                /\ ret'.error \notin ListedErrors
                /\ ret'.summary # <<>> /\ ret'.key_points # <<>>
                /\ ret'.saved_id # None
                /\ ret'.saved_id[1] \notin DOMAIN rows
                /\ DOMAIN rows' = DOMAIN rows \cup {ret'.saved_id[1]}
                /\ \A i \in DOMAIN rows : rows'[i] = rows[i]
                /\ CompleteRecord(rows'[ret'.saved_id[1]], ret')]_vars

C8_Witness ==
    /\ IsRequest(ret)
    /\ ret.error = "RemoteError"
    /\ ret.should_save
    /\ remote = 2
    /\ DOMAIN rows # {}

\* C14: a length outside {short, medium, long} is not rejected:
\* LocalSummarizer.summarize uses the count 5, OnlineSummarizer.summarize
\* the instruction of medium, the handler answers 200, and with save=true
\* the record is stored with the length as given.
C14_UnknownTierAccepted ==
    /\ (ret.op = "summarize" /\ ret.strategy = "local" /\ ret.length \notin Tiers) =>
          /\ ~ret.raised
          /\ DocumentSentences(ret.text) # <<>> =>
                IsSelectionOf(ret.text, 5, ret.picked, ret.value)
    /\ (ret.op = "summarize" /\ ret.strategy = "online" /\ ret.length \notin Tiers) =>
          /\ ret.instruction = "in 4-6 sentences"
          /\ ret.api_key \notin NoCredential => ret.error \in {NoError, "RemoteError"}
    /\ (ret.op = "http_summarize" /\ ret.length \notin Tiers /\ Strip(ret.text) # <<>>) =>
          /\ ret.mode = "local" =>
                /\ ret.status = 200
                /\ ret.summary \in {LocalSummarize(ret.text, "medium", rating).value :
                                        rating \in TextRankRatings(DocumentSentences(ret.text))}
          /\ (ret.status = 200 /\ ret.should_save) =>
                /\ ret.saved_id # None
                /\ ret.saved_id[1] \in DOMAIN rows
                /\ rows[ret.saved_id[1]].length = Str(ret.length)

C14_Witness ==
    /\ ret.op = "http_summarize"
    /\ ret.length = "huge"
    /\ ret.status = 200
    /\ ret.saved_id # None
    /\ rows[ret.saved_id[1]].length = <<"huge">>

\* C12 as stated: extract_key_points(text, max_points) returns at most
\* max_points entries for every max_points >= 0, by the local strategy,
\* its fallback included, and by the online strategy for every reply.
C12_AtMostMaxPoints ==
    (ret.op = "extract_key_points" /\ ret.max_points >= 0 /\ ~ret.raised) =>
        Len(ret.value) <= ret.max_points

\* C12 as amended: at most max_points entries for every max_points >= 1;
\* for max_points = 0 the fallback's single entry, the truncated prefix of
\* the text or the whole stripped reply.
C12_AtMostMaxPointsFromOne ==
    (ret.op = "extract_key_points" /\ ~ret.raised) =>
        /\ ret.max_points >= 1 => Len(ret.value) <= ret.max_points
        /\ ret.max_points = 0 =>
              ret.value = IF ret.strategy = "local"
                          THEN <<Take(ret.text, 200) \o <<"...">> >>
                          ELSE <<Strip(ret.reply[1])>>

\* A reply of three bullet lines cut to two key points.
C12_Witness ==
    /\ ret.op = "extract_key_points"
    /\ ret.strategy = "online"
    /\ ret.max_points = 2
    /\ ret.value = << <<"p">>, <<"p">> >>
    /\ Head(ret.reply[1]) = "-"
    /\ Len(CollectPoints(SplitLines(Strip(ret.reply[1])), <<>>, 3)) = 3

(***************************************************************************)
(* Properties of concurrent calls.                                         *)
(***************************************************************************)
\* C11: in every interleaving of calls of summarize and extract_key_points
\* that share one LocalSummarizer and race through _initialize, each call
\* ends with the result it has when it runs alone.
C11_SameResultAsAlone ==
    \A t \in DOMAIN threads :
        threads[t].pc = "done" =>
            threads[t].result = Some(Alone(threads[t], nltk_data.first, nltk_data.network))

=============================================================================
